---- MODULE Spec2Model ----
(***************************************************************************)
(* Model of the Image Analysis Controller, src/src/App.tsx (component App). *)
(*                                                                         *)
(* The four pieces of React state (image, analysis, loading, error) are    *)
(* the Session.  Every handler runs to completion on the single JS thread, *)
(* so a handler, or the continuation of an await, is one atomic action.    *)
(* A handler is written as the list of state updates it performs, in the   *)
(* order of the source, and the action applies that list to the Session.   *)
(*                                                                         *)
(* Optional values (string | null, string | undefined) are sets with at    *)
(* most one element: None is null/undefined, Some(x) is the value x.       *)
(* A data URL is a sequence of tokens, the comma being one token, so that  *)
(* readAsDataURL and split(',') are computed and not assumed.              *)
(*                                                                         *)
(* Spec     the program: handlers fire only from elements that are         *)
(*          rendered (lines 92, 107, 139).                                 *)
(* FairSpec Spec, where the gateway eventually settles every request.      *)
(* SpecOps  the handlers invoked directly in any state, the way a harness  *)
(*          would call them; it exercises the guards of the handlers       *)
(*          themselves (line 38, line 78).                                 *)
(***************************************************************************)
EXTENDS Naturals, Sequences, FiniteSets

VARIABLES image, analysis, loading, error,
          inputFiles, reads, requests,
          invoked, dispatched,
          updates, last, selected

vars == <<image, analysis, loading, error, inputFiles, reads, requests,
          invoked, dispatched, updates, last, selected>>

(* ------------------------------ bounds -------------------------------- *)

\* file reads that may be outstanding at once
MaxReads == 2
\* gateway requests that may be in flight at once (binding in SpecOps only)
MaxRequests == 2
\* invocations of analyzeImage with an image set, over a whole run
MaxSubmits == 3

(* --------------------------- values and text --------------------------- *)

None == {}
Some(x) == {x}
The(opt) == CHOOSE x \in opt : TRUE

\* the files a user can pick: declared type and base64 body
Files == { [mime |-> "image/jpeg", b64 |-> "QUJD"],
           [mime |-> "image/png",  b64 |-> "REVG"] }

\* FileReader.readAsDataURL: "data:<mime>;base64,<body>"
DataURL(f) == <<"data:", f.mime, ";base64", ",", f.b64>>

\* String.prototype.split(sep): the segments between the separators
RECURSIVE SplitFrom(_, _, _, _)
SplitFrom(s, sep, i, cur) ==
  IF i > Len(s) THEN <<cur>>
  ELSE IF s[i] = sep THEN <<cur>> \o SplitFrom(s, sep, i + 1, <<>>)
       ELSE SplitFrom(s, sep, i + 1, Append(cur, s[i]))

Split(s, sep) == SplitFrom(s, sep, 1, <<>>)

\* image.split(',')[1]: undefined when there is no second segment
base64Data(img) ==
  IF img = None THEN None
  ELSE LET parts == Split(The(img), ",")
       IN  IF Len(parts) >= 2 THEN Some(parts[2]) ELSE None

\* JavaScript truthiness of the three kinds of value the component tests
TruthyImage(img) == img # None /\ The(img) # <<>>
TruthyText(t) == t # ""
TruthyOpt(o) == o # None /\ The(o) # ""

Model == "gemini-3-flash-preview"
MimeType == "image/jpeg"
Prompt == "describe this image in Persian, in full detail"
FallbackText == "no description received"
FailureMessage == "analysis failed, please try again"

\* what the gateway may answer with: response.text undefined, '' or a text
ResponseTexts == { None, Some(""), Some("a red apple on a table") }

\* response.text || fallback
OrElse(opt, fallback) == IF opt = None \/ The(opt) = "" THEN fallback ELSE The(opt)

(* ------------------------------ Session -------------------------------- *)

Session == [image |-> image, analysis |-> analysis,
            loading |-> loading, error |-> error]

Prev == [image |-> image, analysis |-> analysis, loading |-> loading,
         error |-> error, requests |-> requests, reads |-> reads,
         inputFiles |-> inputFiles]

setImage(v)    == [field |-> "image", val |-> v]
setAnalysis(v) == [field |-> "analysis", val |-> v]
setLoading(v)  == [field |-> "loading", val |-> v]
setError(v)    == [field |-> "error", val |-> v]

RECURSIVE ApplyAll(_, _)
ApplyAll(s, ups) ==
  IF ups = <<>> THEN s
  ELSE ApplyAll([s EXCEPT ![Head(ups).field] = Head(ups).val], Tail(ups))

\* the Session after a handler ran the updates ups
Commit(ups) ==
  LET s == ApplyAll(Session, ups)
  IN  /\ image' = s.image
      /\ analysis' = s.analysis
      /\ loading' = s.loading
      /\ error' = s.error
      /\ updates' = ups

(* ------------------------------- Init ---------------------------------- *)

Init ==
  /\ image = None
  /\ analysis = ""
  /\ loading = FALSE
  /\ error = None
  /\ inputFiles = <<>>
  /\ reads = <<>>
  /\ requests = <<>>
  /\ invoked = 0
  /\ dispatched = 0
  /\ updates = <<>>
  /\ last = [op |-> "init"]
  /\ selected = None

(* --------------------------- rendered elements ------------------------- *)

\* line 92: {image && <button onClick={reset}>}
ResetButtonRendered == TruthyImage(image)

\* line 107: {!image ? <div> ... <input type="file" onChange=...> : ...}
FileInputRendered == ~TruthyImage(image)

\* variant: the button stays rendered while a request is pending
AnalyzeButtonRenderedWhileLoading ==
  TruthyImage(image) /\ ~TruthyText(analysis)

\* variant: the button is hidden while the error banner is shown
AnalyzeButtonRenderedUnlessError ==
  TruthyImage(image) /\ ~TruthyText(analysis) /\ ~loading /\ ~TruthyOpt(error)

\* variant: the button stays rendered next to a result
AnalyzeButtonRenderedInDone ==
  TruthyImage(image) /\ ~loading

\* lines 107, 139: the image branch, and in it {!analysis && !loading && <button>}
AnalyzeButtonRendered ==
  TruthyImage(image) /\ ~TruthyText(analysis) /\ ~loading

\* the files of the file input after a render with image img: the input is
\* unmounted while an image is shown and a new, empty one is mounted after it
InputAfter(img, files) == IF TruthyImage(img) THEN <<>> ELSE files

(* ------------------------------ handlers ------------------------------- *)

RemoveAt(seq, i) == SubSeq(seq, 1, i - 1) \o SubSeq(seq, i + 1, Len(seq))

\* lines 24-35: handleImageUpload(e), e.target.files = files
HandleImageUpload(files) ==
  /\ IF files # <<>>
     THEN /\ Len(reads) < MaxReads
          /\ reads' = Append(reads, files[1])
          /\ selected' = Some(files[1])
     ELSE UNCHANGED <<reads, selected>>
  /\ Commit(<<>>)
  /\ inputFiles' = IF FileInputRendered THEN files ELSE inputFiles
  /\ last' = [op |-> "handleImageUpload", prevop |-> last.op, prev |-> Prev, files |-> files]
  /\ UNCHANGED <<requests, invoked, dispatched>>

\* reader.result at loadend: the data URL, or null when the read failed
readerResult(f, ok) == IF ok THEN Some(DataURL(f)) ELSE None

\* variant: a completed read leaves a previous error in place
onloadendUpdatesKeepsError(result) ==
  <<setImage(result), setAnalysis("")>>

\* variant: a failed read is reported through error
onloadendUpdatesReportsFailure(result) ==
  IF result = None
  THEN <<setError(Some("the file could not be read"))>>
  ELSE <<setImage(result), setAnalysis(""), setError(None)>>

\* variant: only the read of the most recent selection is applied
onloadendUpdatesLatestOnly(result) ==
  IF result # None /\ selected # None /\ result # Some(DataURL(The(selected)))
  THEN <<>>
  ELSE <<setImage(result), setAnalysis(""), setError(None)>>

\* lines 28-32: reader.onloadend
onloadendUpdates(result) ==
  <<setImage(result), setAnalysis(""), setError(None)>>

ReaderLoadEnd(i, ok) ==
  /\ i \in 1..Len(reads)
  /\ LET result == readerResult(reads[i], ok)
     IN  /\ Commit(onloadendUpdates(result))
         /\ inputFiles' = InputAfter(result, inputFiles)
         /\ last' = [op |-> "onloadend", prevop |-> last.op, prev |-> Prev, file |-> reads[i],
                     ok |-> ok, result |-> result]
  /\ reads' = RemoveAt(reads, i)
  /\ UNCHANGED <<requests, invoked, dispatched, selected>>

\* variant: no early return
analyzeImageNeverReturns(img) == FALSE

\* line 38: if (!image) return
analyzeImageReturns(img) == ~TruthyImage(img)

\* variant: the dispatch does not clear the previous error
analyzeImageUpdatesKeepsError ==
  <<setLoading(TRUE), setAnalysis("")>>

\* variant: the dispatch does not raise loading
analyzeImageUpdatesNoLoading ==
  <<setError(None), setAnalysis("")>>

\* variant: the dispatch shows a placeholder text as the analysis
analyzeImageUpdatesPlaceholder ==
  <<setLoading(TRUE), setError(None), setAnalysis("analyzing...")>>

\* lines 40-42
analyzeImageUpdates ==
  <<setLoading(TRUE), setError(None), setAnalysis("")>>

\* variant: the data URL is sent whole, prefix included
generateContentRequestWholeURL(img) ==
  [model |-> Model, mimeType |-> MimeType, data |-> img, text |-> Prompt]

\* lines 46-63: the argument of ai.models.generateContent
generateContentRequest(img) ==
  [model |-> Model, mimeType |-> MimeType, data |-> base64Data(img),
   text |-> Prompt]

\* lines 37-48: analyzeImage up to the await
AnalyzeImage ==
  /\ IF analyzeImageReturns(image)
     THEN /\ Commit(<<>>)
          /\ UNCHANGED <<requests, invoked, dispatched>>
     ELSE /\ invoked < MaxSubmits
          /\ Len(requests) < MaxRequests
          /\ Commit(analyzeImageUpdates)
          /\ requests' = Append(requests, generateContentRequest(image))
          /\ invoked' = invoked + 1
          /\ dispatched' = dispatched + 1
  /\ last' = [op |-> "analyzeImage", prevop |-> last.op, prev |-> Prev]
  /\ UNCHANGED <<inputFiles, reads, selected>>

\* variant: the response text is stored without the fallback
resolvedUpdatesNoFallback(response) ==
  <<setAnalysis(IF response.text = None THEN "" ELSE The(response.text)),
    setLoading(FALSE)>>

\* variant: an empty response text is reported as a failure
resolvedUpdatesEmptyAsError(response) ==
  IF response.text = None \/ response.text = Some("")
  THEN <<setError(Some(FailureMessage)), setLoading(FALSE)>>
  ELSE <<setAnalysis(The(response.text)), setLoading(FALSE)>>

\* variant: a response that arrives when no image is shown is dropped
resolvedUpdatesDiscardsStale(response) ==
  IF ~TruthyImage(image)
  THEN <<setLoading(FALSE)>>
  ELSE <<setAnalysis(OrElse(response.text, FallbackText)), setLoading(FALSE)>>

\* lines 65, 69-71: the await returned a response; try, then finally
resolvedUpdates(response) ==
  <<setAnalysis(OrElse(response.text, FallbackText)), setLoading(FALSE)>>

GatewayResolves(i, text) ==
  /\ i \in 1..Len(requests)
  /\ LET response == [text |-> text]
     IN  /\ Commit(resolvedUpdates(response))
         /\ last' = [op |-> "resolved", prevop |-> last.op, prev |-> Prev,
                     request |-> requests[i], response |-> response]
  /\ requests' = RemoveAt(requests, i)
  /\ UNCHANGED <<inputFiles, reads, invoked, dispatched, selected>>

\* variant: the caught error's own message is shown
rejectedUpdatesRawError ==
  <<setError(Some("TypeError: Failed to fetch")), setLoading(FALSE)>>

\* variant: loading is lowered in the try block only, not in a finally
rejectedUpdatesNoFinally ==
  <<setError(Some(FailureMessage))>>

\* lines 66-71: the await threw; catch, then finally
rejectedUpdates ==
  <<setError(Some(FailureMessage)), setLoading(FALSE)>>

\* variant: the catch block sends the failed request once more
retriedRequestsOnce(req) == <<req>>

\* lines 66-68: the requests the catch block issues for the failed request req
retriedRequests(req) == <<>>

GatewayRejects(i) ==
  /\ i \in 1..Len(requests)
  /\ Commit(rejectedUpdates)
  /\ last' = [op |-> "rejected", prevop |-> last.op, prev |-> Prev, request |-> requests[i]]
  /\ requests' = RemoveAt(requests, i) \o retriedRequests(requests[i])
  /\ dispatched' = dispatched + Len(retriedRequests(requests[i]))
  /\ UNCHANGED <<inputFiles, reads, invoked, selected>>

\* variant: reset also lowers loading
resetUpdatesClearsLoading ==
  <<setImage(None), setAnalysis(""), setError(None), setLoading(FALSE)>>

\* variant: reset steps back one screen, the result first and then the image
resetUpdatesStepsBack ==
  IF TruthyText(analysis) \/ TruthyOpt(error)
  THEN <<setAnalysis(""), setError(None)>>
  ELSE <<setImage(None), setAnalysis(""), setError(None)>>

\* lines 75-77
resetUpdates ==
  <<setImage(None), setAnalysis(""), setError(None)>>

\* lines 74-79: reset; line 78 empties the file input when one is mounted
Reset ==
  /\ Commit(resetUpdates)
  /\ inputFiles' = IF FileInputRendered THEN <<>> ELSE InputAfter(None, inputFiles)
  /\ last' = [op |-> "reset", prevop |-> last.op, prev |-> Prev]
  /\ UNCHANGED <<reads, requests, invoked, dispatched, selected>>

(* ----------------------- the rendered interface ------------------------ *)

\* the selections a user can make in the file dialog: one file, or none
Selections == {<<>>} \cup { <<f>> : f \in Files }

\* line 122: the input is rendered and its selection changes
ChooseFile(files) ==
  /\ FileInputRendered
  /\ files # inputFiles
  /\ HandleImageUpload(files)

\* line 141
ClickAnalyze == AnalyzeButtonRendered /\ AnalyzeImage

\* line 94
ClickReset == ResetButtonRendered /\ Reset

ReadSettles == \E i \in 1..MaxReads : \E ok \in BOOLEAN : ReaderLoadEnd(i, ok)

GatewayAnswers ==
  \E i \in 1..MaxRequests : \E text \in ResponseTexts : GatewayResolves(i, text)

GatewayFails == \E i \in 1..MaxRequests : GatewayRejects(i)

Next ==
  \/ \E files \in Selections : ChooseFile(files)
  \/ ReadSettles
  \/ ClickAnalyze
  \/ GatewayAnswers
  \/ GatewayFails
  \/ ClickReset

Spec == Init /\ [][Next]_vars

\* the gateway eventually settles every request it was sent
FairSpec == Spec /\ WF_vars(GatewayAnswers \/ GatewayFails)

NextOps ==
  \/ \E files \in Selections : HandleImageUpload(files)
  \/ ReadSettles
  \/ AnalyzeImage
  \/ GatewayAnswers
  \/ GatewayFails
  \/ Reset

SpecOps == Init /\ [][NextOps]_vars

TypeOK ==
  /\ image \in {None} \cup { Some(DataURL(f)) : f \in Files }
  /\ analysis \in {"", FallbackText, "a red apple on a table"}
  /\ loading \in BOOLEAN
  /\ error \in {None, Some(FailureMessage)}
  /\ inputFiles \in Selections
  /\ Len(reads) <= MaxReads
  /\ Len(requests) <= MaxRequests
  /\ invoked \in 0..MaxSubmits
  /\ dispatched \in 0..MaxSubmits
  /\ selected \in {None} \cup { Some(f) : f \in Files }

(* ------------------------------- claims -------------------------------- *)

Fresh == [image |-> None, analysis |-> "", loading |-> FALSE, error |-> None]

PrevSession == [image |-> last.prev.image, analysis |-> last.prev.analysis,
                loading |-> last.prev.loading, error |-> last.prev.error]

\* C1 (as claimed): the state right after reset is the fresh Session: image
\* absent, analysis empty, error unset and loading false, also when a gateway
\* request is pending.
C1_ResetYieldsFreshSession ==
  last.op = "reset" => Session = Fresh

\* C1 (amended): the state right after reset has image absent, analysis empty
\* and error unset, and loading keeps the value it had before the reset.
C1_ResetClearsAllButLoading ==
  last.op = "reset" =>
    /\ image = None
    /\ analysis = ""
    /\ error = None
    /\ loading = last.prev.loading

\* reset was clicked while a gateway request was pending
C1_ResetWhilePending ==
  last.op = "reset" /\ last.prev.loading /\ requests # <<>>

\* C2: right after a gateway call failed, error is the fixed failure message,
\* analysis is empty and loading is false, whatever happened while the request
\* was pending.
C2_FailedSubmission ==
  last.op = "rejected" =>
    /\ error = Some(FailureMessage)
    /\ analysis = ""
    /\ ~loading

\* a gateway call failed after the image was taken away during the wait
C2_FailedAfterImageGone ==
  last.op = "rejected" /\ image = None /\ error = Some(FailureMessage)

\* C3: right after a gateway call succeeded, loading is false and exactly one
\* of analysis non-empty and error set holds.
C3_SucceededSubmission ==
  last.op = "resolved" =>
    /\ ~loading
    /\ TruthyText(analysis) \/ TruthyOpt(error)
    /\ ~(TruthyText(analysis) /\ TruthyOpt(error))

\* a gateway call succeeded with an empty text
C3_SucceededWithEmptyText ==
  last.op = "resolved" /\ last.response.text = Some("") /\ ~loading

\* C4: at most one of loading, analysis non-empty and error set holds.
C4_AtMostOneOfThree ==
  /\ ~(loading /\ TruthyText(analysis))
  /\ ~(loading /\ TruthyOpt(error))
  /\ ~(TruthyText(analysis) /\ TruthyOpt(error))

\* a submission was retried from the Failed state
C4_RetryFromFailed ==
  last.op = "analyzeImage" /\ TruthyOpt(last.prev.error) /\ loading

\* C5: loading is true exactly while a dispatched gateway request has not
\* resolved.
C5_LoadingIffPending ==
  loading <=> requests # <<>>

\* a file read completed while a gateway request was pending
C5_ReadCompletedWhilePending ==
  last.op = "onloadend" /\ loading /\ requests # <<>>

\* C6: never are two gateway requests in flight.
C6_SingleFlight ==
  Len(requests) <= 1

\* a second request is in flight after the first one was settled
C6_SecondRequestInFlight ==
  Len(requests) = 1 /\ dispatched >= 2

\* C7: the resolution of a request, success or failure, lowers loading as its
\* last state update; and when the gateway settles every request, loading true
\* leads to loading false.
C7_GuaranteedCleanup ==
  /\ [](last.op \in {"resolved", "rejected"} =>
          /\ updates # <<>>
          /\ updates[Len(updates)].field = "loading"
          /\ updates[Len(updates)].val = FALSE)
  /\ (loading ~> ~loading)

\* a pending request failed and loading went from true to false
C7_LoadingLoweredOnFailure ==
  last.op = "rejected" /\ last.prev.loading /\ ~loading

\* C8: when a file read completes, analysis and error are cleared and image is
\* the data URL of the file that was read, whatever the Session was before.
C8_SelectImageClears ==
  last.op = "onloadend" =>
    /\ analysis = ""
    /\ error = None
    /\ last.ok => image = Some(DataURL(last.file))

\* a read completed in the Done state of another image
C8_ReadCompletedInDone ==
  /\ last.op = "onloadend"
  /\ last.ok
  /\ TruthyText(last.prev.analysis)
  /\ last.prev.image # image

\* C9: analyzeImage called while image is absent changes nothing of the Session
\* and dispatches no request.
C9_SubmitWithoutImageIsNoOp ==
  (last.op = "analyzeImage" /\ ~TruthyImage(last.prev.image)) =>
    /\ Session = PrevSession
    /\ requests = last.prev.requests

\* analyzeImage was called with no image while an earlier request was pending
C9_SubmitWithoutImageWhilePending ==
  /\ last.op = "analyzeImage"
  /\ last.prev.image = None
  /\ loading
  /\ Len(requests) = 1

\* C10: a reset applied right after a reset changes nothing: the Session is the
\* one the first reset gave.
C10_ResetIdempotent ==
  (last.op = "reset" /\ last.prevop = "reset") =>
    /\ Session = PrevSession
    /\ inputFiles = last.prev.inputFiles

\* reset was applied twice in a row while a request was pending
C10_ResetTwice ==
  last.op = "reset" /\ last.prevop = "reset" /\ loading

\* C11: a successful response never leaves analysis empty: analysis is the
\* returned text when that text is non-empty and the fallback phrase when it is
\* empty or missing, and the resolution does not touch error.
C11_SuccessSetsAnalysis ==
  last.op = "resolved" =>
    /\ analysis # ""
    /\ last.response.text = Some("a red apple on a table")
         => analysis = "a red apple on a table"
    /\ last.response.text \in {None, Some("")} => analysis = FallbackText
    /\ error = last.prev.error

\* a response without a text field was mapped to the fallback phrase
C11_MissingTextGivesFallback ==
  last.op = "resolved" /\ last.response.text = None /\ analysis = FallbackText

\* C12: error goes from unset to set only in the step that resolves a request
\* with a failure, and a failed file read leaves error unset.
C12_ErrorOnlyOnGatewayFailure ==
  /\ (last.op # "init" /\ ~TruthyOpt(last.prev.error) /\ TruthyOpt(error))
       => last.op = "rejected"
  /\ (last.op = "onloadend" /\ ~last.ok) => error = None

\* a file read failed while the error banner was shown
C12_ReadFailedInFailed ==
  /\ last.op = "onloadend"
  /\ ~last.ok
  /\ TruthyOpt(last.prev.error)
  /\ error = None

\* C13: the number of requests dispatched equals the number of analyzeImage
\* invocations made with an image set; a failure dispatches nothing.
C13_OneRequestPerSubmission ==
  /\ dispatched = invoked
  /\ last.op = "rejected" => Len(requests) + 1 = Len(last.prev.requests)

\* a second submission failed as the first one had
C13_FailedTwice ==
  last.op = "rejected" /\ invoked = 2 /\ dispatched = 2 /\ requests = <<>>

\* the image shown is not the one the settled request was dispatched with
StaleResolution ==
  ~TruthyImage(image) \/ base64Data(image) # last.request.data

\* C14: a response that resolves after a reset, or after another image was
\* picked, is still applied: analysis is then non-empty after a success and
\* error set after a failure.
C14_StaleResponseApplied ==
  /\ (last.op = "resolved" /\ StaleResolution) => TruthyText(analysis)
  /\ (last.op = "rejected" /\ StaleResolution) => TruthyOpt(error)

\* a result is shown while no image is
C14_ResultWithoutImage ==
  last.op = "resolved" /\ image = None /\ TruthyText(analysis)

\* C15: when the file read started by a selection fails, the Session is left
\* unchanged: image, analysis, error and loading keep their values.
C15_FailedReadLeavesSession ==
  (last.op = "onloadend" /\ ~last.ok) => Session = PrevSession

\* the request that was dispatched last
NewestRequest == requests[Len(requests)]

\* C16: a gateway failure leaves image unchanged and, an image being shown,
\* leaves the analyze button rendered; the retry from the Failed state clears
\* error, raises loading and dispatches one more request, for the same image.
C16_RetryAfterFailure ==
  /\ last.op = "rejected" =>
       /\ image = last.prev.image
       /\ TruthyImage(image) => AnalyzeButtonRendered
  /\ (last.op = "analyzeImage" /\ TruthyImage(last.prev.image)
        /\ TruthyOpt(last.prev.error)) =>
       /\ error = None
       /\ loading
       /\ image = last.prev.image
       /\ Len(requests) = Len(last.prev.requests) + 1
       /\ NewestRequest.data = base64Data(last.prev.image)

\* the submission was repeated right after it had failed
C16_RetriedAtOnce ==
  last.op = "analyzeImage" /\ last.prevop = "rejected" /\ loading /\ error = None

\* C17: analysis goes from empty to non-empty only in the step that resolves a
\* request with a success; a dispatch, a completed read and a reset leave it
\* empty.
C17_AnalysisOnlyOnSuccess ==
  /\ (last.op # "init" /\ ~TruthyText(last.prev.analysis) /\ TruthyText(analysis))
       => last.op = "resolved"
  /\ (last.op = "analyzeImage" /\ TruthyImage(last.prev.image)) => analysis = ""
  /\ last.op \in {"onloadend", "reset"} => analysis = ""

\* a success put the returned text where analysis was empty
C17_TextAfterSuccess ==
  /\ last.op = "resolved"
  /\ last.prev.analysis = ""
  /\ analysis = "a red apple on a table"

\* C18: through the rendered interface analyzeImage runs only where image is
\* set, analysis is empty, loading is false and nothing is in flight; so never
\* right after a success.
C18_SubmitOnlyWhenIdleWithImage ==
  last.op = "analyzeImage" =>
    /\ TruthyImage(last.prev.image)
    /\ ~TruthyText(last.prev.analysis)
    /\ ~last.prev.loading
    /\ last.prev.requests = <<>>
    /\ last.prevop # "resolved"

\* a new submission was made for an image picked after an earlier submission
C18_SubmitAfterNewSelection ==
  last.op = "analyzeImage" /\ last.prevop = "onloadend" /\ dispatched >= 2

\* C19: a read that succeeds for a file other than the one selected last still
\* becomes the image and clears analysis and error: with two reads outstanding
\* the image is that of the read that completes last.
C19_LastCompletedReadWins ==
  (last.op = "onloadend" /\ last.ok /\ selected # Some(last.file)) =>
    /\ image = Some(DataURL(last.file))
    /\ image # Some(DataURL(The(selected)))
    /\ analysis = ""
    /\ error = None

\* both reads completed, the earlier selection last: it is the image shown
C19_EarlierSelectionShown ==
  /\ last.op = "onloadend"
  /\ last.prevop = "onloadend"
  /\ last.ok
  /\ reads = <<>>
  /\ selected # Some(last.file)
  /\ image = Some(DataURL(last.file))

\* C20: the payload of a request is the base64 body of the image shown at the
\* dispatch, declared as image/jpeg; a selection, a completed read and a reset
\* leave the requests in flight as they are.
C20_PayloadFixedAtDispatch ==
  /\ (last.op = "analyzeImage" /\ TruthyImage(last.prev.image)) =>
       /\ \E f \in Files :
            /\ last.prev.image = Some(DataURL(f))
            /\ NewestRequest.data = Some(<<f.b64>>)
       /\ NewestRequest.mimeType = "image/jpeg"
       /\ SubSeq(requests, 1, Len(requests) - 1) = last.prev.requests
  /\ last.op \in {"handleImageUpload", "onloadend", "reset"} =>
       requests = last.prev.requests

\* another image was picked while a request was pending; the payload is the old one
C20_NewImageWhilePending ==
  /\ last.op = "onloadend"
  /\ last.ok
  /\ Len(requests) = 1
  /\ requests[1].data # base64Data(image)

====
